---- MODULE Spec2Model ----
(***************************************************************************)
(* Model of src/index.js: an Express service with two POST handlers that   *)
(* build a Nodemailer message (template + context) and await               *)
(* transporter.sendMail, whose 'compile' step is the Handlebars plugin.    *)
(*                                                                         *)
(* JavaScript objects are functions from their own keys to values; a key   *)
(* that is missing reads as Undefined.  Every request is an independent    *)
(* async task: the handler runs synchronously up to `await`, sendMail      *)
(* settles its promise in two library steps (compile, then the SMTP        *)
(* transport), and the handler's continuation writes the response.         *)
(***************************************************************************)
EXTENDS Integers, Sequences, FiniteSets, TLC

\* Number of requests in flight at once.
NumReqs == 2

Requests == 1..NumReqs

\* The value of a missing property / unset environment variable.
Undefined == "<undefined>"

\* obj.key for a JavaScript object: Undefined when the key is absent.
Get(obj, k) == IF k \in DOMAIN obj THEN obj[k] ELSE Undefined

\* The empty object {}.
EmptyObj == [k \in {} |-> Undefined]

\* { ...base, ...over }: the keys of both, `over` winning on a clash.
Spread(base, over) ==
    [k \in (DOMAIN base) \cup (DOMAIN over) |->
        IF k \in DOMAIN over THEN over[k] ELSE base[k]]

\* !v for the values a JSON string field can take here.
Falsy(v) == v = Undefined \/ v = ""

\* a || b
OrElse(a, b) == IF Falsy(a) THEN b ELSE a

(***************************************************************************)
(* Environment: process.env, the wall clock, the template directory.       *)
(***************************************************************************)
\* Two configurations: everything set, and only EMAIL_FROM set.
EnvSet ==
    { [EMAIL_FROM |-> "noreply@acme.test",
       EMAIL_REPLY_TO |-> "support@acme.test",
       COMPANY_NAME |-> "Acme"],
      [EMAIL_FROM |-> "mailer@example.org",
       EMAIL_REPLY_TO |-> Undefined,
       COMPANY_NAME |-> Undefined] }

Years == {2025, 2026}

\* The year the process starts in.
FirstYear == CHOOSE y \in Years : \A z \in Years : y <= z

\* Files under viewPath (./src/templates/) with extension .hbs; "broken" is
\* a template a user added whose Handlebars source does not parse.
TemplateFiles == {"welcome", "broken"}

Malformed == {"broken"}

(***************************************************************************)
(* Request bodies (req.body after express.json()).                         *)
(***************************************************************************)
WelcomeBodies ==
    { [to |-> "user@example.com", username |-> "John Doe",
       verificationLink |-> "https://app/verify?token=abc123",
       from |-> "evil@spoof.test", replyTo |-> "evil@spoof.test",
       company_name |-> "Evil Corp"],
      [to |-> "ann@example.com", username |-> "Ann"],
      [to |-> "bob@example.com", username |-> "Bob", verificationLink |-> ""],
      [username |-> "Ann"],
      [to |-> "", username |-> "Ann"],
      [to |-> "ann@example.com"],
      [to |-> "ann@example.com", username |-> "",
       verificationLink |-> "https://app/verify?token=abc123"],
      EmptyObj }

CustomBodies ==
    { [to |-> "a@b.com", subject |-> "Hello", template |-> "welcome",
       from |-> "evil@spoof.test", replyTo |-> "evil@spoof.test",
       context |-> [company_name |-> "Evil Corp", current_year |-> 1999,
                    from |-> "evil@spoof.test", replyTo |-> "evil@spoof.test",
                    username |-> "Bob"]],
      [to |-> "a@b.com", subject |-> "Hello", template |-> "does-not-exist",
       context |-> [username |-> "Bob"]],
      [to |-> "c@d.com", subject |-> "Hi", template |-> "broken"],
      [to |-> "a@b.com"],
      [subject |-> "Hello", template |-> "welcome"],
      [to |-> "", subject |-> "Hello", template |-> "welcome"],
      [to |-> "a@b.com", template |-> "welcome"],
      [to |-> "a@b.com", subject |-> "", template |-> "welcome"],
      [to |-> "a@b.com", subject |-> "Hello",
       context |-> [company_name |-> "Evil Corp"]],
      [to |-> "a@b.com", subject |-> "Hello", template |-> ""] }

VARIABLES
    env,          \* process.env, read at every dispatch, never written
    now,          \* the year new Date().getFullYear() returns
    pc,           \* per request: idle, compile, transport, settled, done
    route,        \* per request: the endpoint it was posted to
    body,         \* per request: req.body
    sendMailLog,  \* per request: the mailOptions passed to transporter.sendMail
    transportLog, \* per request: number of messages the SMTP transport was given
    settled,      \* per request: how sendMail's promise settled (<<>> = pending)
    resp,         \* per request: the responses written with res.status().json()
    nextId        \* the transport's message-id counter

vars == <<env, now, pc, route, body, sendMailLog, transportLog, settled, resp, nextId>>

Init ==
    /\ env \in EnvSet
    /\ now = FirstYear
    /\ pc = [r \in Requests |-> "idle"]
    /\ route = [r \in Requests |-> "none"]
    /\ body = [r \in Requests |-> EmptyObj]
    /\ sendMailLog = [r \in Requests |-> <<>>]
    /\ transportLog = [r \in Requests |-> 0]
    /\ settled = [r \in Requests |-> <<>>]
    /\ resp = [r \in Requests |-> <<>>]
    /\ nextId = 1

(***************************************************************************)
(* POST /send-welcome-email                                                *)
(***************************************************************************)
\* Variant: only `to` is validated.
WelcomeValidToOnly(b) == ~Falsy(Get(b, "to"))

\* if (!to || !username) return 400: the request passes when neither is falsy.
WelcomeValid(b) == ~(Falsy(Get(b, "to")) \/ Falsy(Get(b, "username")))

\* Variant: the link is passed through without the '#' default.
WelcomeContextNoDefault(b, e, y) ==
    [username |-> Get(b, "username"),
     verification_link |-> Get(b, "verificationLink"),
     company_name |-> e.COMPANY_NAME,
     current_year |-> y]

\* mailOptions.context of the welcome handler.
WelcomeContext(b, e, y) ==
    [username |-> Get(b, "username"),
     verification_link |-> OrElse(Get(b, "verificationLink"), "#"),
     company_name |-> e.COMPANY_NAME,
     current_year |-> y]

WelcomeMailOptions(b, e, y) ==
    [from |-> e.EMAIL_FROM,
     to |-> Get(b, "to"),
     replyTo |-> e.EMAIL_REPLY_TO,
     subject |-> "Welcome to Our Platform!",
     template |-> "welcome",
     context |-> WelcomeContext(b, e, y)]

WelcomeInvalidResponse ==
    [status |-> 400,
     error |-> "Missing required fields",
     message |-> "Both \"to\" and \"username\" are required fields"]

(***************************************************************************)
(* POST /send-email                                                        *)
(***************************************************************************)
\* Variant: `template` is not validated.
CustomValidNoTemplate(b) == ~(Falsy(Get(b, "to")) \/ Falsy(Get(b, "subject")))

CustomValid(b) ==
    ~(Falsy(Get(b, "to")) \/ Falsy(Get(b, "subject")) \/ Falsy(Get(b, "template")))

\* Variant: { company_name, current_year, ...context }, the caller's entries last.
CustomContextCallerLast(b, e, y) ==
    Spread([company_name |-> e.COMPANY_NAME, current_year |-> y],
           IF "context" \in DOMAIN b THEN b.context ELSE EmptyObj)

\* { ...context, company_name, current_year }; spreading undefined adds nothing.
CustomContext(b, e, y) ==
    Spread(IF "context" \in DOMAIN b THEN b.context ELSE EmptyObj,
           [company_name |-> e.COMPANY_NAME, current_year |-> y])

\* Variant: from/replyTo taken from the body when it has them.
CustomMailOptionsFromBody(b, e, y) ==
    [from |-> OrElse(Get(b, "from"), e.EMAIL_FROM),
     to |-> Get(b, "to"),
     replyTo |-> OrElse(Get(b, "replyTo"), e.EMAIL_REPLY_TO),
     subject |-> Get(b, "subject"),
     template |-> Get(b, "template"),
     context |-> CustomContext(b, e, y)]

CustomMailOptions(b, e, y) ==
    [from |-> e.EMAIL_FROM,
     to |-> Get(b, "to"),
     replyTo |-> e.EMAIL_REPLY_TO,
     subject |-> Get(b, "subject"),
     template |-> Get(b, "template"),
     context |-> CustomContext(b, e, y)]

CustomInvalidResponse ==
    [status |-> 400,
     error |-> "Missing required fields",
     message |-> "\"to\", \"subject\", and \"template\" are required fields"]

(***************************************************************************)
(* Responses written after the await.                                      *)
(***************************************************************************)
SuccessMessage(rt) ==
    IF rt = "welcome" THEN "Welcome email sent successfully" ELSE "Email sent successfully"

\* Variant: the id comes from a variable shared by all requests, which holds
\* the id the transport issued last.
SuccessResponseShared(rt, info, b) ==
    [status |-> 200,
     success |-> TRUE,
     message |-> SuccessMessage(rt),
     messageId |-> nextId - 1,
     recipient |-> Get(b, "to")]

\* res.status(200).json({success, message, messageId: info.messageId, recipient: to})
SuccessResponse(rt, info, b) ==
    [status |-> 200,
     success |-> TRUE,
     message |-> SuccessMessage(rt),
     messageId |-> info.messageId,
     recipient |-> Get(b, "to")]

\* Variant: the catch block answers with the generic text of the error middleware.
FailureResponseGeneric(error) ==
    [status |-> 500,
     error |-> "Email sending failed",
     message |-> "Something went wrong on our end"]

\* Variant: the catch block swallows the error and reports success.
FailureResponseSwallowed(error) ==
    [status |-> 200,
     success |-> TRUE,
     message |-> "Email sent successfully"]

\* catch (error): res.status(500).json({error: 'Email sending failed', message: error.message})
FailureResponse(error) ==
    [status |-> 500,
     error |-> "Email sending failed",
     message |-> error.message]

(***************************************************************************)
(* Handlers up to the await: validation, mailOptions, the sendMail call.   *)
(***************************************************************************)
Dispatch(r, rt, b, valid, opts, invalidResp) ==
    /\ pc[r] = "idle"
    /\ route' = [route EXCEPT ![r] = rt]
    /\ body' = [body EXCEPT ![r] = b]
    /\ IF valid
         THEN /\ sendMailLog' = [sendMailLog EXCEPT ![r] = Append(@, opts)]
              /\ pc' = [pc EXCEPT ![r] = "compile"]
              /\ resp' = resp
         ELSE /\ resp' = [resp EXCEPT ![r] = Append(@, invalidResp)]
              /\ pc' = [pc EXCEPT ![r] = "done"]
              /\ sendMailLog' = sendMailLog
    /\ UNCHANGED <<env, now, transportLog, settled, nextId>>

SendWelcomeEmail(r) ==
    \E b \in WelcomeBodies :
        Dispatch(r, "welcome", b, WelcomeValid(b),
                 WelcomeMailOptions(b, env, now), WelcomeInvalidResponse)

SendEmail(r) ==
    \E b \in CustomBodies :
        Dispatch(r, "custom", b, CustomValid(b),
                 CustomMailOptions(b, env, now), CustomInvalidResponse)

(***************************************************************************)
(* transporter.sendMail: the 'compile' plugin, then the SMTP transport.    *)
(***************************************************************************)
\* What the Handlebars plugin does with mail.data.template: "ok" when the
\* file exists and compiles, otherwise the error it passes to the callback.
CompileOutcome(t) ==
    IF t \notin TemplateFiles
      THEN [ok |-> FALSE, kind |-> "TemplateNotFound",
            message |-> "ENOENT: no such file or directory"]
    ELSE IF t \in Malformed
      THEN [ok |-> FALSE, kind |-> "TemplateCompileError",
            message |-> "Parse error on line 1"]
    ELSE [ok |-> TRUE]

Mail(r) == sendMailLog[r][Len(sendMailLog[r])]

Compile(r) ==
    /\ pc[r] = "compile"
    /\ LET out == CompileOutcome(Mail(r).template) IN
         IF out.ok
           THEN /\ pc' = [pc EXCEPT ![r] = "transport"]
                /\ settled' = settled
           ELSE /\ pc' = [pc EXCEPT ![r] = "settled"]
                /\ settled' = [settled EXCEPT ![r] = <<out>>]
    /\ UNCHANGED <<env, now, route, body, sendMailLog, transportLog, resp, nextId>>

TransportErrors == {"connect ECONNREFUSED"}

\* The SMTP transport accepts the message and returns info.messageId.
TransportAccept(r) ==
    /\ pc[r] = "transport"
    /\ transportLog' = [transportLog EXCEPT ![r] = @ + 1]
    /\ settled' = [settled EXCEPT ![r] = <<[ok |-> TRUE, messageId |-> nextId]>>]
    /\ nextId' = nextId + 1
    /\ pc' = [pc EXCEPT ![r] = "settled"]
    /\ UNCHANGED <<env, now, route, body, sendMailLog, resp>>

\* The SMTP transport rejects or cannot be reached.
TransportReject(r) ==
    /\ pc[r] = "transport"
    /\ \E m \in TransportErrors :
         settled' = [settled EXCEPT ![r] =
                        <<[ok |-> FALSE, kind |-> "TransportError", message |-> m]>>]
    /\ transportLog' = [transportLog EXCEPT ![r] = @ + 1]
    /\ pc' = [pc EXCEPT ![r] = "settled"]
    /\ UNCHANGED <<env, now, route, body, sendMailLog, resp, nextId>>

(***************************************************************************)
(* The handler after the await: success response, or the catch block.      *)
(***************************************************************************)
\* Variant of the catch block: sendMail is called again with the same options.
OnRejectedRetry(r, error) ==
    /\ sendMailLog' = [sendMailLog EXCEPT ![r] = Append(@, Mail(r))]
    /\ pc' = [pc EXCEPT ![r] = "compile"]
    /\ resp' = resp

\* The catch block: one 500 response, nothing else.
OnRejected(r, error) ==
    /\ resp' = [resp EXCEPT ![r] = Append(@, FailureResponse(error))]
    /\ pc' = [pc EXCEPT ![r] = "done"]
    /\ sendMailLog' = sendMailLog

\* The statements after the await: one 200 response.
OnFulfilled(r, info) ==
    /\ resp' = [resp EXCEPT ![r] = Append(@, SuccessResponse(route[r], info, body[r]))]
    /\ pc' = [pc EXCEPT ![r] = "done"]
    /\ sendMailLog' = sendMailLog

Respond(r) ==
    /\ pc[r] = "settled"
    /\ LET out == settled[r][1] IN
         IF out.ok THEN OnFulfilled(r, out) ELSE OnRejected(r, out)
    /\ UNCHANGED <<env, now, route, body, transportLog, settled, nextId>>

\* The wall clock passes into the next year.
NewYear ==
    /\ now + 1 \in Years
    /\ now' = now + 1
    /\ UNCHANGED <<env, pc, route, body, sendMailLog, transportLog, settled, resp, nextId>>

Next ==
    \/ NewYear
    \/ \E r \in Requests :
        \/ SendWelcomeEmail(r)
        \/ SendEmail(r)
        \/ Compile(r)
        \/ TransportAccept(r)
        \/ TransportReject(r)
        \/ Respond(r)

Spec == Init /\ [][Next]_vars


(***************************************************************************)
(* Properties                                                              *)
(***************************************************************************)
Sent(r) == sendMailLog[r] # <<>>

Answered(r) == resp[r] # <<>>

Rejected(r) == settled[r] # <<>> /\ ~settled[r][1].ok

Fulfilled(r) == settled[r] # <<>> /\ settled[r][1].ok

WelcomeMissing(r) ==
    route[r] = "welcome"
    /\ (Falsy(Get(body[r], "to")) \/ Falsy(Get(body[r], "username")))

CustomMissing(r) ==
    route[r] = "custom"
    /\ (Falsy(Get(body[r], "to")) \/ Falsy(Get(body[r], "subject"))
        \/ Falsy(Get(body[r], "template")))

\* C1: a welcome request whose `to` or `username` is absent or empty is
\* answered 400 "Missing required fields"; transporter.sendMail is never
\* called for it, so no mailOptions (context, template) exist and nothing is
\* compiled or handed to the transport.
C1_WelcomeValidation ==
    \A r \in Requests :
        WelcomeMissing(r) =>
            /\ Len(resp[r]) = 1
            /\ resp[r][1].status = 400
            /\ resp[r][1].error = "Missing required fields"
            /\ sendMailLog[r] = <<>>
            /\ transportLog[r] = 0
            /\ settled[r] = <<>>
            /\ pc[r] = "done"

C1_Witness ==
    \E r \in Requests :
        /\ route[r] = "welcome"
        /\ Get(body[r], "to") = "ann@example.com"
        /\ Get(body[r], "username") = ""
        /\ Answered(r)

\* C2: a custom request in which any of `to`, `subject`, `template` is
\* absent or empty is answered 400 "Missing required fields" and
\* transporter.sendMail is never called for it.
C2_CustomValidation ==
    \A r \in Requests :
        CustomMissing(r) =>
            /\ Len(resp[r]) = 1
            /\ resp[r][1].status = 400
            /\ resp[r][1].error = "Missing required fields"
            /\ sendMailLog[r] = <<>>
            /\ transportLog[r] = 0
            /\ pc[r] = "done"

C2_Witness ==
    \E r \in Requests :
        /\ route[r] = "custom"
        /\ Get(body[r], "to") = "a@b.com"
        /\ Get(body[r], "subject") = "Hello"
        /\ Get(body[r], "template") = Undefined
        /\ Answered(r)

\* C3: whenever a handler passes a message to sendMail, on either route, the
\* message's context has company_name equal to process.env.COMPANY_NAME and
\* current_year equal to the clock's year at that moment, whatever the
\* caller's context held under those keys.
C3_InjectedKeysWin ==
    [][\A r \in Requests :
          Len(sendMailLog'[r]) > Len(sendMailLog[r]) =>
              LET m == sendMailLog'[r][Len(sendMailLog'[r])] IN
                  /\ {"company_name", "current_year"} \subseteq DOMAIN m.context
                  /\ m.context.company_name = env.COMPANY_NAME
                  /\ m.context.current_year = now]_vars

C3_Witness ==
    \E r \in Requests :
        /\ route[r] = "custom"
        /\ Sent(r)
        /\ "context" \in DOMAIN body[r]
        /\ Get(body[r].context, "company_name") = "Evil Corp"
        /\ Get(body[r].context, "current_year") = 1999
        /\ Mail(r).context.company_name = env.COMPANY_NAME
        /\ Mail(r).context.current_year = 2026

\* C4: the from and replyTo of every message passed to sendMail are the
\* configured EMAIL_FROM and EMAIL_REPLY_TO, so any two requests to the same
\* endpoint carry the same from and replyTo whatever their bodies contain.
C4_SenderFromConfigOnly ==
    /\ \A r \in Requests : \A i \in 1..Len(sendMailLog[r]) :
          /\ sendMailLog[r][i].from = env.EMAIL_FROM
          /\ sendMailLog[r][i].replyTo = env.EMAIL_REPLY_TO
    /\ \A r1, r2 \in Requests :
          (Sent(r1) /\ Sent(r2) /\ route[r1] = route[r2]) =>
              /\ Mail(r1).from = Mail(r2).from
              /\ Mail(r1).replyTo = Mail(r2).replyTo

C4_Witness ==
    \E r1, r2 \in Requests :
        /\ route[r1] = "custom" /\ route[r2] = "custom"
        /\ Sent(r1) /\ Sent(r2)
        /\ Get(body[r1], "from") = "evil@spoof.test"
        /\ Get(body[r1], "replyTo") = "evil@spoof.test"
        /\ Get(body[r2], "from") = Undefined
        /\ Mail(r1).from = Mail(r2).from

\* C5: a request calls sendMail at most once and reaches the transport at
\* most once; once its send has failed nothing is sent again, and a finished
\* request has exactly one response, which after a failure is the 500.
C5_NoRetryReportedOnce ==
    \A r \in Requests :
        /\ Len(sendMailLog[r]) <= 1
        /\ transportLog[r] <= 1
        /\ Len(resp[r]) <= 1
        /\ pc[r] = "done" => Len(resp[r]) = 1
        /\ (pc[r] = "done" /\ Rejected(r)) => resp[r][1].status = 500
        /\ (Rejected(r) /\ pc[r] = "settled") => resp[r] = <<>>

C5_Witness ==
    \E r \in Requests :
        /\ pc[r] = "done"
        /\ Rejected(r)
        /\ settled[r][1].kind = "TransportError"
        /\ transportLog[r] = 1
        /\ Len(resp[r]) = 1

CustomUnknownTemplate(r) ==
    /\ route[r] = "custom"
    /\ ~CustomMissing(r)
    /\ Get(body[r], "template") \notin TemplateFiles

C7_KindPerStage ==
    \A r \in Requests :
        (pc[r] = "done" /\ Rejected(r)) =>
            /\ Len(resp[r]) = 1
            /\ resp[r][1].status = 500
            /\ resp[r][1].error = settled[r][1].kind
            /\ resp[r][1].message = settled[r][1].message

\* C7: after a failed send (template missing, template malformed, or the
\* transport rejecting) the only response is a 500 whose `error` is the fixed
\* text "Email sending failed", whichever stage failed, and whose `message`
\* is the original error's message unchanged.
C7_FailureResponse ==
    \A r \in Requests :
        (pc[r] = "done" /\ Rejected(r)) =>
            /\ Len(resp[r]) = 1
            /\ resp[r][1].status = 500
            /\ resp[r][1].error = "Email sending failed"
            /\ resp[r][1].message = settled[r][1].message
            /\ "success" \notin DOMAIN resp[r][1]

C7_Witness ==
    \E r1, r2 \in Requests :
        /\ pc[r1] = "done" /\ Rejected(r1)
        /\ settled[r1][1].kind = "TransportError"
        /\ resp[r1][1].message = "connect ECONNREFUSED"
        /\ pc[r2] = "done" /\ Rejected(r2)
        /\ settled[r2][1].kind = "TemplateCompileError"
        /\ resp[r2][1].message = "Parse error on line 1"

\* C8: a request whose send the transport accepted is answered 200 with
\* success true, the messageId the transport returned for that request and
\* that request's own `to` as recipient, never the id issued to another
\* request; on the welcome route the message is "Welcome email sent
\* successfully".
C8_OwnIdAndRecipient ==
    \A r \in Requests :
        (pc[r] = "done" /\ Fulfilled(r)) =>
            /\ Len(resp[r]) = 1
            /\ resp[r][1].status = 200
            /\ resp[r][1].success = TRUE
            /\ resp[r][1].messageId = settled[r][1].messageId
            /\ resp[r][1].recipient = Get(body[r], "to")
            /\ route[r] = "welcome" =>
                  resp[r][1].message = "Welcome email sent successfully"
            /\ \A q \in Requests \ {r} :
                  Fulfilled(q) => resp[r][1].messageId # settled[q][1].messageId

C8_Witness ==
    \E r, q \in Requests :
        /\ r # q
        /\ route[r] = "welcome"
        /\ pc[r] = "done" /\ Fulfilled(r)
        /\ pc[q] = "done" /\ Fulfilled(q)
        /\ settled[r][1].messageId = 1
        /\ settled[q][1].messageId = 2
        /\ Get(body[r], "to") # Get(body[q], "to")
        /\ resp[r][1].recipient = "user@example.com"

\* C9 as stated: with COMPANY_NAME unset, every message passed to sendMail
\* has company_name "Your Company" in its context.
C9_DefaultCompanyName ==
    env.COMPANY_NAME = Undefined =>
        \A r \in Requests : \A i \in 1..Len(sendMailLog[r]) :
            sendMailLog[r][i].context.company_name = "Your Company"

WelcomeSent(r) == route[r] = "welcome" /\ Sent(r)

WelcomeShape(r) ==
    /\ DOMAIN Mail(r).context =
          {"username", "verification_link", "company_name", "current_year"}
    /\ Mail(r).context.username = body[r].username
    /\ Mail(r).template = "welcome"
    /\ Mail(r).subject = "Welcome to Our Platform!"

\* C10 as stated: the welcome context has exactly the four keys, username
\* verbatim, verification_link the request's verificationLink when the body
\* has one and "#" when it has none; template "welcome", fixed subject.
C10_LinkWhenGiven ==
    \A r \in Requests :
        WelcomeSent(r) =>
            /\ WelcomeShape(r)
            /\ Mail(r).context.verification_link =
                  IF "verificationLink" \in DOMAIN body[r]
                    THEN body[r].verificationLink ELSE "#"

\* C10: the welcome context has exactly the four keys, username verbatim,
\* verification_link the request's verificationLink when it is given and not
\* empty, and "#" when it is omitted or empty; template "welcome", fixed
\* subject.
C10_WelcomeContext ==
    \A r \in Requests :
        WelcomeSent(r) =>
            /\ WelcomeShape(r)
            /\ Mail(r).context.verification_link =
                  IF "verificationLink" \in DOMAIN body[r] /\ body[r].verificationLink # ""
                    THEN body[r].verificationLink ELSE "#"

C10_Witness ==
    \E r, q \in Requests :
        /\ WelcomeSent(r) /\ WelcomeSent(q)
        /\ "verificationLink" \notin DOMAIN body[r]
        /\ Mail(r).context.verification_link = "#"
        /\ "company_name" \in DOMAIN body[q]
        /\ Mail(q).context.verification_link = "https://app/verify?token=abc123"

====
